---- MODULE Spec2Model ----
(***************************************************************************)
(* A model of src/backup.py: the hard link based incremental backup.       *)
(*                                                                         *)
(* The state is the source tree, the destination root on disk (the sets,   *)
(* their catalogs, shard directories and block files, and the inodes the   *)
(* block files name), and the globals of one running process.  One action  *)
(* stands for each step of main(); the user interrupt and the changes the  *)
(* outside world makes between two runs are actions too.                   *)
(*                                                                         *)
(* Scaling: a byte is a number in 1..MaxByte, a file is a sequence of      *)
(* bytes, BLOCK_SIZE is a few bytes, the 64 bit fold of encode64 is        *)
(* WORD_BITS wide, and sha1 is an injective numbering of byte sequences    *)
(* (the program relies on sha1 being collision free).  The modes, uids and *)
(* gids of a catalog row are copied from stat() and never read again by    *)
(* the program; the rows of the model leave them out.                      *)
(***************************************************************************)
EXTENDS Integers, Sequences, FiniteSets, TLC

(***************************************************************************)
(* Bounds of the model.                                                    *)
(***************************************************************************)
BLOCK_SIZE == 2              \* src/backup.py:37 is 2**27; scaled
COMMIT_INTERVAL_FILES == 2   \* src/backup.py:36 is 100; scaled
WORD_BITS == 3               \* encode64 folds 64 bits; scaled
MaxByte == 2                 \* bytes are 1..MaxByte
MAXSYMLINKS == 1             \* symbolic links the kernel follows in one path
MaxDay == 2                  \* days the calendar can reach

INPROGRESS_DIRNAME == <<0, 0>>    \* the set directory named 'inprogress'
NoSet == <<0, 1>>                 \* None, for referenceSet and destinationSet

(***************************************************************************)
(* Arithmetic helpers.                                                     *)
(***************************************************************************)
RECURSIVE Pow(_, _)
Pow(b, e) == IF e = 0 THEN 1 ELSE b * Pow(b, e - 1)

Min(a, b) == IF a < b THEN a ELSE b

MaxOf(S) == CHOOSE x \in S : \A y \in S : y <= x

\* every st_mtime_ns of the scaled word: the unsigned values of WORD_BITS bits
Stamps == 0..(Pow(2, WORD_BITS) - 1)

\* encode64 without the fold into the signed range
encode64_NoFold(value) == value % Pow(2, WORD_BITS)

\* def encode64(value)
encode64(value) ==
    LET v == value % Pow(2, WORD_BITS)
    IN  IF (v \div Pow(2, WORD_BITS - 1)) % 2 # 0 THEN v - Pow(2, WORD_BITS) ELSE v

\* def decode64(value)
decode64(value) == IF value < 0 THEN value + Pow(2, WORD_BITS) ELSE value

\* hashlib.sha1(view).hexdigest(): an injective numbering of byte sequences
RECURSIVE sha1(_)
sha1(view) ==
    IF view = <<>> THEN 0 ELSE Head(view) + (MaxByte + 1) * sha1(Tail(view))

\* hash[:2] and hash[2:]: the shard directory and the file name inside it
ShardOf(hash) == hash % 2
RestOf(hash) == hash \div 2

(***************************************************************************)
(* The catalog: the tables source, file and block of one catalog.db.       *)
(***************************************************************************)
EmptyCatalog == [source |-> {}, file |-> {}, block |-> <<>>]

\* integer primary key: the rowid sqlite gives to a row inserted with id NULL
NewRowId(rows) == IF rows = {} THEN 1 ELSE MaxOf({r.id : r \in rows}) + 1

\* 'insert or replace into source(id, path) ...' and last_insert_rowid()
UpsertSourceId(cat, path) ==
    IF \E r \in cat.source : r.path = path
    THEN (CHOOSE r \in cat.source : r.path = path).id
    ELSE NewRowId(cat.source)

UpsertSource(cat, path) ==
    [cat EXCEPT !.source = {r \in @ : r.path # path}
                           \cup {[id |-> UpsertSourceId(cat, path), path |-> path]}]

\* 'select id from source where path = :path' on the reference catalog, 0 if no row
FindSourceId(cat, path) ==
    IF \E r \in cat.source : r.path = path
    THEN (CHOOSE r \in cat.source : r.path = path).id
    ELSE 0

\* the id of a plain insert: a new rowid, whatever row the path had
FileRowId_Fresh(cat, sourceId, relativePath) == NewRowId(cat.file)

\* the id 'insert or replace into file' keeps or allots, as last_insert_rowid() reads it
FileRowId(cat, sourceId, relativePath) ==
    IF \E r \in cat.file : r.source = sourceId /\ r.path = relativePath
    THEN (CHOOSE r \in cat.file : r.source = sourceId /\ r.path = relativePath).id
    ELSE NewRowId(cat.file)

\* def insertFileEntry: the row statement (the counter and the commit are in Tick)
insertFileEntry(cat, sourceId, relativePath, filetype, st, link) ==
    LET id == FileRowId(cat, sourceId, relativePath)
    IN  [cat EXCEPT !.file =
            {r \in @ : ~(r.source = sourceId /\ r.path = relativePath) /\ r.id # id}
            \cup {[id |-> id, source |-> sourceId, path |-> relativePath,
                   type |-> filetype, lastmod |-> encode64(st.mtime),
                   size |-> st.size, link |-> link]}]

\* backupFile without its call of deleteBlockEntriesForFile
deleteBlockEntriesForFile_Keep(cat, file) == cat

\* def deleteBlockEntriesForFile
deleteBlockEntriesForFile(cat, file) ==
    [cat EXCEPT !.block = SelectSeq(@, LAMBDA b : b.file # file)]

\* unique(file, offset, size) of table block: would this insert violate it
BlockConflict(cat, file, offset, size) ==
    \E i \in 1..Len(cat.block) :
        /\ cat.block[i].file = file
        /\ cat.block[i].offset = offset
        /\ cat.block[i].size = size

\* insertBlockEntry recording a full block whatever was read
insertBlockEntry_FullSize(cat, file, offset, size, hash) ==
    [cat EXCEPT !.block = Append(@, [file |-> file, offset |-> offset,
                                      size |-> BLOCK_SIZE, hash |-> hash])]

\* def insertBlockEntry
insertBlockEntry(cat, file, offset, size, hash) ==
    [cat EXCEPT !.block = Append(@, [file |-> file, offset |-> offset,
                                      size |-> size, hash |-> hash])]

\* 'select * from block where file = :file', in rowid order
BlocksOf(cat, file) == SelectSeq(cat.block, LAMBDA b : b.file = file)

(***************************************************************************)
(* State.                                                                  *)
(***************************************************************************)
VARIABLES
    tree,                  \* the source root: child name -> entry
    dirs,                  \* the source arguments of the command line
    today,                 \* datetime.date.today()
    budget,                \* runs and outside changes still allowed
    sets,                  \* destination root: set name -> catalog, shards, blocks
    inodes,                \* inode number -> bytes of a block file
    pc,                    \* where the process is; "idle" when none runs
    exitStatus,            \* exit status of the last process, -1 before any
    optDryRun,
    destinationSet,
    referenceSet,
    destinationDatabase,   \* [st |-> "none" | "open" | "closed", cat |-> its rows]
    referenceDatabase,     \* [st |-> "none" | "open" | "closed", cat |-> its rows]
    rootsLeft,             \* the rest of 'for path in dirs'
    ids,                   \* sourceId and refSourceId of the root being walked
    stack,                 \* the frames of backupDirectory, innermost last
    cur,                   \* the locals of backupFile while the file is open
    stats,                 \* the statistics counters
    ghost                  \* observations the properties read; the program has none

envVars == <<tree, dirs, today, budget>>
diskVars == <<sets, inodes>>
procVars == <<pc, exitStatus, optDryRun, destinationSet, referenceSet,
              destinationDatabase, referenceDatabase, rootsLeft, ids, stack, cur, stats>>
vars == <<tree, dirs, today, budget, sets, inodes, pc, exitStatus, optDryRun,
          destinationSet, referenceSet, destinationDatabase, referenceDatabase,
          rootsLeft, ids, stack, cur, stats, ghost>>

(***************************************************************************)
(* The source tree.  An entry of the source root is                        *)
(*   [kind, data, mtime, perm, target]                                     *)
(* kind:   "none" absent, "F" regular file, "D" empty directory,           *)
(*         "L" symbolic link, "O" fifo or device, "dest" the destination   *)
(*         root (when it lies inside the source root)                      *)
(* perm:   "ok", "nostat" (stat is denied), "noopen" (open is denied),     *)
(*         "noread" (the first read fails), "noread1" (the second fails)   *)
(* target: of a link: "a" the sibling a, "missing", "root" the source      *)
(*         root, "set" the set LinkedSet, "dest" the destination root      *)
(***************************************************************************)
SourceNames == <<"a", "b", "backup">>
LinkedSet == <<1, 0>>

Absent == [kind |-> "none", data |-> <<>>, mtime |-> 0, perm |-> "ok", target |-> ""]
RegularFile(data, mtime, perm) ==
    [kind |-> "F", data |-> data, mtime |-> mtime, perm |-> perm, target |-> ""]
Symlink(target) ==
    [kind |-> "L", data |-> <<>>, mtime |-> 0, perm |-> "ok", target |-> target]
OtherEntry(kind) ==
    [kind |-> kind, data |-> <<>>, mtime |-> 0, perm |-> "ok", target |-> ""]

\* Nodes: what a path names once it is resolved
Node(t, n, set, k) == [t |-> t, n |-> n, set |-> set, k |-> k]
RootNode == Node("root", "", NoSet, 0)
ChildNode(n) == Node("child", n, NoSet, 0)
DestRootNode == Node("destroot", "", NoSet, 0)
SetNode(s) == Node("set", "", s, 0)
ShardNode(s, k) == Node("shard", "", s, k)
BlockNode(s, h) == Node("block", "", s, h)

HasBlock(ss, s, h) == s \in DOMAIN ss /\ h \in DOMAIN ss[s].blocks

\* the bytes of the regular file a node names
DataOf(node) ==
    IF node.t = "child" THEN tree[node.n].data
    ELSE IF node.t = "block" /\ HasBlock(sets, node.set, node.k)
         THEN inodes[sets[node.set].blocks[node.k]]
         ELSE <<>>

PermOf(node) == IF node.t = "child" THEN tree[node.n].perm ELSE "ok"

StatResult(err, mode, mtime, size, node) ==
    [err |-> err, mode |-> mode, mtime |-> mtime, size |-> size, node |-> node]
StatError(err) == StatResult(err, "", 0, 0, RootNode)

\* os.stat of a node that is no symbolic link
StatNode(node) ==
    IF node.t = "child" /\ node.n \notin DOMAIN tree THEN StatError("FileNotFoundError")
    ELSE IF node.t = "child" THEN
        LET e == tree[node.n]
        IN  IF e.kind = "none" THEN StatError("FileNotFoundError")
            ELSE IF e.perm = "nostat" THEN StatError("PermissionError")
            ELSE IF e.kind = "F" THEN StatResult("ok", "F", e.mtime, Len(e.data), node)
            ELSE IF e.kind = "D" THEN StatResult("ok", "D", 0, 0, node)
            ELSE IF e.kind = "dest" THEN StatResult("ok", "D", 0, 0, DestRootNode)
            ELSE StatResult("ok", "O", 0, 0, node)
    ELSE IF node.t = "set" THEN
        IF node.set \in DOMAIN sets THEN StatResult("ok", "D", 0, 0, node)
        ELSE StatError("FileNotFoundError")
    ELSE IF node.t = "block" THEN StatResult("ok", "F", 0, Len(DataOf(node)), node)
    ELSE StatResult("ok", "D", 0, 0, node)

\* what a symbolic link's target names
TargetNode(target) ==
    IF target = "a" THEN ChildNode("a")
    ELSE IF target = "root" THEN RootNode
    ELSE IF target = "set" THEN SetNode(LinkedSet)
    ELSE IF target = "dest" THEN DestRootNode
    ELSE ChildNode("missing")

IsLink(node) == node.t = "child" /\ node.n \in DOMAIN tree /\ tree[node.n].kind = "L"

\* pathlib.Path.stat(): follows symbolic links; links counts the links already
\* followed on the way to the directory that holds the node
stat(node, links) ==
    IF IsLink(node) THEN
        IF links + 1 > MAXSYMLINKS THEN StatError("OSError")
        ELSE StatNode(TargetNode(tree[node.n].target))
    ELSE StatNode(node)

\* pathlib.Path.lstat(): the link itself
lstat(node) ==
    IF IsLink(node) THEN StatResult("ok", "L", 0, 1, node) ELSE StatNode(node)

\* os.readlink
readlink(node) == tree[node.n].target

RECURSIVE SortedSeq(_)
SortedSeq(S) ==
    IF S = {} THEN <<>>
    ELSE LET m == CHOOSE x \in S : \A y \in S : x <= y
         IN  <<m>> \o SortedSeq(S \ {m})

DirEntry(name, node) == [name |-> name, node |-> node]

\* pathlib.Path.iterdir() of a directory node, in the directory's own order.
\* The catalog.db of a set is left out of the listing: its bytes are not modelled.
iterdir(node) ==
    IF node.t = "root" THEN
        LET present == SelectSeq(SourceNames, LAMBDA n : tree[n].kind # "none")
        IN  [i \in 1..Len(present) |-> DirEntry(present[i], ChildNode(present[i]))]
    ELSE IF node.t = "set" /\ node.set \in DOMAIN sets THEN
        LET ks == SortedSeq(sets[node.set].shards)
        IN  [i \in 1..Len(ks) |-> DirEntry(ToString(ks[i]), ShardNode(node.set, ks[i]))]
    ELSE IF node.t = "shard" /\ node.set \in DOMAIN sets THEN
        LET hs == SortedSeq({h \in DOMAIN sets[node.set].blocks : ShardOf(h) = node.k})
        IN  [i \in 1..Len(hs) |->
                DirEntry(ToString(RestOf(hs[i])), BlockNode(node.set, hs[i]))]
    ELSE <<>>

(***************************************************************************)
(* The destination root on disk.                                           *)
(***************************************************************************)
EmptySet == [catalog |-> EmptyCatalog, shards |-> {}, blocks |-> <<>>]

HistoricalSets(ss) == DOMAIN ss \ {INPROGRESS_DIRNAME}

\* blockFile.stat().st_size
SizeOf(ss, ino, s, h) == Len(ino[ss[s].blocks[h]])

\* files that name the inode of <s>/<hash>: st_nlink
LinkCount(ss, s, h) ==
    Cardinality({t \in DOMAIN ss : HasBlock(ss, t, h) /\ ss[t].blocks[h] = ss[s].blocks[h]})

\* blockFile = destinationSet / hash[:2]; if not blockFile.is_dir(): blockFile.mkdir()
MkShard(ss, s, hash) == [ss EXCEPT ![s].shards = @ \cup {ShardOf(hash)}]

\* destinationRoot.glob('*/{}/{}'.format(hash[:2], hash[2:])): the matches, unordered
glob(ss, hash) == {s \in DOMAIN ss : hash \in DOMAIN ss[s].blocks}

\* first(iterable) of an enumeration whose order the file system chooses:
\* the values it can return (NoSet stands for None)
first(matches) == IF matches = {} THEN {NoSet} ELSE matches

\* ref.link_to(blockFile), the target being absent
LinkTo(ss, from, to, hash) ==
    [ss EXCEPT ![to].blocks = (hash :> ss[from].blocks[hash]) @@ @]

\* the peer test: ref and ref.is_file() and ref.stat().st_size == len(view)
PeerUsable(ss, ino, ref, hash, view) ==
    ref # NoSet /\ HasBlock(ss, ref, hash) /\ SizeOf(ss, ino, ref, hash) = Len(view)

\* the first test: blockFile.is_file() and blockFile.stat().st_size == len(view)
AlreadyInSet(ss, ino, dset, hash, view) ==
    HasBlock(ss, dset, hash) /\ SizeOf(ss, ino, dset, hash) = Len(view)

BlockOutcome(result, ss, ino) == [result |-> result, sets |-> ss, inodes |-> ino]

\* def linkOrCreateBlock, up to and with os.open(); ref is what first(glob) returned.
\* result "Opened": the file is open, truncated, and os.writev() comes next.
linkOrCreateBlock(hash, view, ref, dry, dset, ss, ino) ==
    LET ss1 == IF ~dry THEN MkShard(ss, dset, hash) ELSE ss
    IN  IF ~dry /\ AlreadyInSet(ss1, ino, dset, hash, view)
        THEN BlockOutcome("Duplicate", ss1, ino)
        ELSE IF PeerUsable(ss1, ino, ref, hash, view)
        THEN IF dry THEN BlockOutcome("LinkedFromPeer", ss1, ino)
             ELSE IF HasBlock(ss1, dset, hash)
                  THEN BlockOutcome("FileExistsError", ss1, ino)
                  ELSE BlockOutcome("LinkedFromPeer", LinkTo(ss1, ref, dset, hash), ino)
        ELSE IF dry THEN BlockOutcome("Created", ss1, ino)
        ELSE IF HasBlock(ss1, dset, hash)
             THEN BlockOutcome("Opened", ss1,
                               [ino EXCEPT ![ss1[dset].blocks[hash]] = <<>>])
             ELSE BlockOutcome("Opened",
                               [ss1 EXCEPT ![dset].blocks = (hash :> (Len(ino) + 1)) @@ @],
                               Append(ino, <<>>))

\* os.writev(fd, [view]) on the file linkOrCreateBlock opened
writev(ss, ino, dset, hash, view) == [ino EXCEPT ![ss[dset].blocks[hash]] = view]

\* def linkReferenceBlock: result TRUE or FALSE, and the disk after it
linkReferenceBlock(hash, rset, dset, ss) ==
    LET ss1 == MkShard(ss, dset, hash)
    IN  IF ~HasBlock(ss1, rset, hash) THEN [ok |-> FALSE, sets |-> ss1]
        ELSE IF HasBlock(ss1, dset, hash) THEN [ok |-> TRUE, sets |-> ss1]
        ELSE [ok |-> TRUE, sets |-> LinkTo(ss1, rset, dset, hash)]

\* commit as it would be if a dry run opened catalog.db instead of ':memory:'
commit_OnDisk(ss, dset, cat, dry) ==
    IF dset \in DOMAIN ss THEN [ss EXCEPT ![dset].catalog = cat] ELSE ss

\* destinationDatabase.commit(): the rows reach catalog.db, unless the
\* database is the in-memory one of a dry run
commit(ss, dset, cat, dry) ==
    IF dry THEN ss ELSE [ss EXCEPT ![dset].catalog = cat]

\* the reference row of backupFile: "select id, lastmod, size from file where
\* source = :source and path = :path and type = 'F'"
RefRows(refcat, refSourceId, relativePath) ==
    {r \in refcat.file :
        r.source = refSourceId /\ r.path = relativePath /\ r.type = "F"}

\* the reuse test without the size comparison
Unchanged_IgnoresSize(refcat, refSourceId, relativePath, st) ==
    /\ refSourceId # 0
    /\ \E row \in RefRows(refcat, refSourceId, relativePath) :
          row.lastmod = encode64(st.mtime)

\* the reuse test with the mtime comparison inverted
Unchanged_MtimeInverted(refcat, refSourceId, relativePath, st) ==
    /\ refSourceId # 0
    /\ \E row \in RefRows(refcat, refSourceId, relativePath) :
          /\ row.lastmod # encode64(st.mtime)
          /\ row.size = st.size

\* the test of the 'while refSourceId:' block of backupFile: no break is taken
Unchanged(refcat, refSourceId, relativePath, st) ==
    /\ refSourceId # 0
    /\ \E row \in RefRows(refcat, refSourceId, relativePath) :
          /\ row.lastmod = encode64(st.mtime)
          /\ row.size = st.size

\* the 'for row in cur:' loop of backupFile over the reference rows:
\* link each block, insert its row; stops at a violated unique constraint
RECURSIVE ReuseBlocks(_, _, _, _, _, _, _)
ReuseBlocks(rows, fileId, cat, ss, dry, rset, dset) ==
    IF rows = <<>> THEN [cat |-> cat, sets |-> ss, error |-> FALSE]
    ELSE LET row == Head(rows)
             ss1 == IF dry THEN ss ELSE linkReferenceBlock(row.hash, rset, dset, ss).sets
         IN  IF BlockConflict(cat, fileId, row.offset, row.size)
             THEN [cat |-> cat, sets |-> ss1, error |-> TRUE]
             ELSE ReuseBlocks(Tail(rows), fileId,
                              insertBlockEntry(cat, fileId, row.offset, row.size, row.hash),
                              ss1, dry, rset, dset)

(***************************************************************************)
(* The process.                                                            *)
(***************************************************************************)
NoDb == [st |-> "none", cat |-> EmptyCatalog]
NoIds == [sourceId |-> 0, refSourceId |-> 0]
NoCur == [fileId |-> 0, rel |-> <<>>, node |-> RootNode, offset |-> 0, reads |-> 0,
          hash |-> 0, view |-> <<>>]
ZeroStats == [catalogEntriesCounter |-> 0, changedFilesCounter |-> 0,
              unchangedFilesCounter |-> 0, directoriesCounter |-> 0,
              symbolicLinksCounter |-> 0, processedBlocksCounter |-> 0,
              duplicateBlocksCounter |-> 0, linkedBlocksCounter |-> 0,
              createdBlocksCounter |-> 0]
NoBlock == [hash |-> 0, result |-> "", peer |-> FALSE]
\* the counters of a finished dry run: at is "none", "done" once the dry run
\* has ended, "paired" while the run that follows it at once is under way
NoDry == [at |-> "none", stats |-> ZeroStats]
\* the catalog a finished walk left in 'inprogress' when the run was stopped
\* before the rename
NoWalk == [on |-> FALSE, cat |-> EmptyCatalog]
NoGhost == [error |-> "", interruptedAt |-> "", afterInterrupt |-> FALSE,
            peered |-> {}, block |-> NoBlock, fresh |-> NoSet, fault |-> "",
            latest |-> NoSet, dry |-> NoDry, walked |-> NoWalk]

\* The outcome of a step: the process and the disk after it; err names the
\* exception that leaves main() uncaught, "" when there is none.
Here == [err |-> "", pc |-> pc, stack |-> stack, cat |-> destinationDatabase.cat,
         sets |-> sets, inodes |-> inodes, stats |-> stats, cur |-> cur,
         peered |-> ghost.peered, block |-> ghost.block]

Raise(o, err) == [o EXCEPT !.err = err]

\* the process ends: nothing of its memory is left
Exit(status) ==
    /\ pc' = "idle"
    /\ exitStatus' = status
    /\ optDryRun' = FALSE
    /\ destinationSet' = NoSet
    /\ referenceSet' = NoSet
    /\ destinationDatabase' = NoDb
    /\ referenceDatabase' = NoDb
    /\ rootsLeft' = <<>>
    /\ ids' = NoIds
    /\ stack' = <<>>
    /\ cur' = NoCur
    /\ stats' = ZeroStats

\* a step of the walk takes effect; an uncaught exception ends the process
\* with a traceback and status 1, and the open transaction is lost
Apply(o) ==
    /\ sets' = o.sets
    /\ inodes' = o.inodes
    /\ UNCHANGED envVars
    /\ IF o.err # ""
       THEN /\ Exit(1)
            /\ ghost' = [ghost EXCEPT !.error = o.err, !.peered = {}, !.block = NoBlock]
       ELSE /\ pc' = o.pc
            /\ stack' = o.stack
            /\ destinationDatabase' = [destinationDatabase EXCEPT !.cat = o.cat]
            /\ stats' = o.stats
            /\ cur' = o.cur
            /\ ghost' = [ghost EXCEPT !.peered = o.peered, !.block = o.block]
            /\ UNCHANGED <<exitStatus, optDryRun, destinationSet, referenceSet,
                           referenceDatabase, rootsLeft, ids>>

\* the tail of insertFileEntry: catalogEntriesCounter and the periodic commit
Tick(o) ==
    LET n == o.stats.catalogEntriesCounter + 1
    IN  [o EXCEPT !.stats.catalogEntriesCounter = n,
                  !.sets = IF n % COMMIT_INTERVAL_FILES = 0
                           THEN commit(o.sets, destinationSet, o.cat, optDryRun)
                           ELSE @]

Bump(o, counter) == [o EXCEPT !.stats[counter] = @ + 1]

\* returns of backupDirectory whose 'for child' loop is over
RECURSIVE PopDone(_)
PopDone(stk) ==
    IF stk = <<>> THEN <<>>
    ELSE IF stk[Len(stk)].todo = <<>> THEN PopDone(SubSeq(stk, 1, Len(stk) - 1))
    ELSE stk

\* the walk goes on with the next child, or backup() with the next root
Resume(o) ==
    [o EXCEPT !.stack = PopDone(@),
              !.pc = IF PopDone(o.stack) = <<>> THEN "dirs" ELSE "walk",
              !.cur = NoCur]

\* the child the innermost 'for child in path.iterdir()' is at
Frame == stack[Len(stack)]
Child == Head(Frame.todo)
ChildPath == Append(Frame.rel, Child.name)
ChildStat == stat(Child.node, Frame.links)
ChildLinks == Frame.links + (IF IsLink(Child.node) THEN 1 ELSE 0)
ChildTaken == [Here EXCEPT !.stack[Len(stack)].todo = Tail(@)]

\* the destination guard of backupDirectory: samefile() compares what the
\* paths name once resolved; the destination root exists throughout
IsDestination(node) ==
    \/ node.t = "destroot"
    \/ (destinationSet \in DOMAIN sets /\ node = SetNode(destinationSet))

\* def backupDirectory, up to the 'for child' loop: o is the caller's state
backupDirectory(o, relativePath, st, links) ==
    IF IsDestination(st.node) THEN o
    ELSE LET o1 == Tick([o EXCEPT !.cat = insertFileEntry(@, ids.sourceId,
                                                relativePath, "D", st, "")])
         IN  [Bump(o1, "directoriesCounter") EXCEPT
                 !.stack = Append(@, [rel |-> relativePath, node |-> st.node,
                                      todo |-> iterdir(st.node), links |-> links])]

\* def backupSymlink
backupSymlink(o, relativePath, node) ==
    Bump(Tick([o EXCEPT !.cat = insertFileEntry(@, ids.sourceId, relativePath, "S",
                                                lstat(node), readlink(node))]),
         "symbolicLinksCounter")

\* the dispatch of backupDirectory's loop body for a child that is no regular file
Dispatch(o, r, st, node, links) ==
    IF st.err = "PermissionError" THEN o
    ELSE IF st.err # "ok" THEN Raise(o, st.err)
    ELSE IF st.mode = "L" THEN backupSymlink(o, r, node)
    ELSE IF st.mode = "D" THEN backupDirectory(o, r, st, links)
    ELSE o

\* def backupFile, lines 211-263: the catalog row, the whole-file reuse, the open
backupFile(o, relativePath, st) ==
    LET fileId == FileRowId(o.cat, ids.sourceId, relativePath)
        o1 == Tick([o EXCEPT !.cat = insertFileEntry(@, ids.sourceId, relativePath,
                                                     "F", st, "")])
        o2 == [o1 EXCEPT !.cat = deleteBlockEntriesForFile(@, fileId)]
        refcat == referenceDatabase.cat
    IN  IF Unchanged(refcat, ids.refSourceId, relativePath, st)
        THEN LET row == CHOOSE r \in RefRows(refcat, ids.refSourceId, relativePath) : TRUE
                 re == ReuseBlocks(BlocksOf(refcat, row.id), fileId, o2.cat, o2.sets,
                                   optDryRun, referenceSet, destinationSet)
                 o3 == [o2 EXCEPT !.cat = re.cat, !.sets = re.sets]
             IN  IF re.error THEN Raise(o3, "IntegrityError")
                 ELSE Resume(Bump(o3, "unchangedFilesCounter"))
        ELSE LET o3 == Bump(o2, "changedFilesCounter")
             IN  IF PermOf(st.node) = "noopen" THEN Resume(o3)
                 ELSE [o3 EXCEPT !.pc = "read",
                                 !.cur = [NoCur EXCEPT !.fileId = fileId,
                                                       !.rel = relativePath,
                                                       !.node = st.node]]

\* insertBlockEntry(fileId, offset, n, hash); offset += n; checked += 1
BlockDone(o, n, hash) ==
    IF BlockConflict(o.cat, o.cur.fileId, o.cur.offset, n)
    THEN Raise(o, "IntegrityError")
    ELSE [o EXCEPT !.cat = insertBlockEntry(@, o.cur.fileId, o.cur.offset, n, hash),
                   !.cur.offset = @ + n,
                   !.cur.reads = @ + 1]

\* os.readv(fd, [fileReadBuffer]) raises OSError
ReadFails(node, reads) ==
    \/ (PermOf(node) = "noread" /\ reads = 0)
    \/ (PermOf(node) = "noread1" /\ reads = 1)

\* a set other than the destination set holds the block at its full size
SiblingHolds(ss, ino, dset, hash, view) ==
    \E s \in DOMAIN ss \ {dset} : PeerUsable(ss, ino, s, hash, view)

\* view = memoryview(fileReadBuffer)[:n] of the read the open file is at
NextView ==
    SubSeq(DataOf(cur.node), cur.offset + 1,
           cur.offset + Min(BLOCK_SIZE, Len(DataOf(cur.node)) - cur.offset))

\* one pass of the 'while True' loop of backupFile, lines 270-293, ref being
\* what first(glob) returns inside linkOrCreateBlock
ReadBlock(ref) ==
    LET data == DataOf(cur.node)
        n == Min(BLOCK_SIZE, Len(data) - cur.offset)
        view == NextView
        hash == sha1(view)
        b == linkOrCreateBlock(hash, view, ref, optDryRun, destinationSet, sets, inodes)
        peer == SiblingHolds(sets, inodes, destinationSet, hash, view)
        o == [Bump(Here, "processedBlocksCounter") EXCEPT
                 !.sets = b.sets, !.inodes = b.inodes,
                 !.peered = IF peer THEN @ \cup {hash} ELSE @,
                 !.block = [hash |-> hash, peer |-> peer,
                            result |-> IF b.result = "Opened" THEN "Created" ELSE b.result]]
    IN  IF ReadFails(cur.node, cur.reads) \/ n = 0 THEN Resume(Here)
        ELSE IF b.result = "Duplicate"
             THEN BlockDone(Bump(o, "duplicateBlocksCounter"), n, hash)
        ELSE IF b.result = "LinkedFromPeer"
             THEN BlockDone(Bump(o, "linkedBlocksCounter"), n, hash)
        ELSE IF b.result = "Created"
             THEN BlockDone(Bump(o, "createdBlocksCounter"), n, hash)
        ELSE IF b.result = "Opened"
             THEN [o EXCEPT !.pc = "write", !.cur.hash = hash, !.cur.view = view]
        ELSE Raise(o, b.result)

\* the rest of linkOrCreateBlock after os.open(): lines 178-185, then 287-293.
\* os.writev writes the whole view: a short write is not modelled.
WriteBlock ==
    BlockDone([Bump(Here, "createdBlocksCounter") EXCEPT
                  !.inodes = writev(sets, inodes, destinationSet, cur.hash, cur.view),
                  !.pc = "read"],
              Len(cur.view), cur.hash)

\* def selectReferenceBackupSet: the directories named [0-9]*, the greatest sortkey
sortkey(name) == <<name[1], name[2]>>
\* the order of the keys turned round: names.sort() would put the oldest set last
KeyLess_Reversed(a, b) == a[1] > b[1] \/ (a[1] = b[1] /\ a[2] > b[2])
KeyLess(a, b) == a[1] < b[1] \/ (a[1] = b[1] /\ a[2] < b[2])
selectReferenceBackupSet(ss) ==
    LET names == HistoricalSets(ss)
    IN  IF names = {} THEN NoSet
        ELSE CHOOSE s \in names :
                \A t \in names \ {s} : KeyLess(sortkey(t), sortkey(s))

\* def renameToDateString: the first of YYYYMMDD, YYYYMMDD-1, ... that is free
RECURSIVE FreeName(_, _, _)
FreeName(ss, date, serial) ==
    IF <<date, serial>> \in DOMAIN ss THEN FreeName(ss, date, serial + 1)
    ELSE <<date, serial>>

\* destinationSet.rename(d)
Rename(ss, from, to) ==
    [s \in (DOMAIN ss \ {from}) \cup {to} |-> IF s = to THEN ss[from] ELSE ss[s]]

\* the root directory a source argument resolves to
RootOf(path) == IF path = "dst" THEN DestRootNode ELSE RootNode

(***************************************************************************)
(* Initial states.  The destination root is an empty directory.  budget    *)
(* bounds what a behaviour may hold: runs, dry runs among them, user       *)
(* interrupts, changes the outside world makes between two runs to the     *)
(* entries named in budget.names (a file's st_mtime_ns being drawn from    *)
(* budget.mtimes), and failures of the block store.                        *)
(***************************************************************************)
Bytes(n, b) == [i \in 1..n |-> b]

\* regular files the child a can start as: every length up to two blocks, and
\* the failures of stat, open and read on a file of a block and a byte
FilesOfA ==
    {RegularFile(Bytes(n, 1), 0, "ok") : n \in 0..(2 * BLOCK_SIZE)}
    \cup {RegularFile(Bytes(BLOCK_SIZE, 1) \o <<MaxByte>>, 0, p) :
            p \in {"ok", "nostat", "noopen", "noread", "noread1"}}

EntriesOfB ==
    {Absent, OtherEntry("O"), OtherEntry("D"), RegularFile(<<1>>, 1, "ok")}
    \cup {Symlink(t) : t \in {"a", "missing", "root", "set", "dest"}}

\* what the outside world can turn an entry into between two runs
Alternatives(n) ==
    IF n = "a" THEN {RegularFile(<<b>>, m, "ok") : b \in 1..MaxByte, m \in budget.mtimes}
    ELSE IF n = "b" THEN {Absent, Symlink("a"), Symlink("set"), OtherEntry("D"),
                          RegularFile(<<1>>, 1, "ok")}
    ELSE {}

InitCommon ==
    /\ today = 1
    /\ sets = <<>>
    /\ inodes = <<>>
    /\ pc = "idle"
    /\ exitStatus = -1
    /\ optDryRun = FALSE
    /\ destinationSet = NoSet
    /\ referenceSet = NoSet
    /\ destinationDatabase = NoDb
    /\ referenceDatabase = NoDb
    /\ rootsLeft = <<>>
    /\ ids = NoIds
    /\ stack = <<>>
    /\ cur = NoCur
    /\ stats = ZeroStats
    /\ ghost = NoGhost

Init ==
    /\ InitCommon
    /\ \E a \in FilesOfA, b \in EntriesOfB, d \in {Absent, OtherEntry("dest")} :
          tree = [n \in {"a", "b", "backup"} |->
                    IF n = "a" THEN a ELSE IF n = "b" THEN b ELSE d]
    /\ dirs = <<"src">>
    /\ budget = [runs |-> 2, dry |-> 1, interrupts |-> 1, changes |-> 1,
                 names |-> {"a", "b"}, faults |-> 0, mtimes |-> 0..1]

(***************************************************************************)
(* The steps of main().                                                    *)
(***************************************************************************)
\* main() up to backup(): the arguments, initialize(), selectReferenceBackupSet()
main ==
    /\ pc = "idle"
    /\ budget.runs > 0
    /\ \E dry \in (IF budget.dry > 0 THEN BOOLEAN ELSE {FALSE}) :
          /\ optDryRun' = dry
          /\ budget' = [budget EXCEPT !.runs = @ - 1,
                                      !.dry = IF dry THEN @ - 1 ELSE @]
          /\ ghost' = [NoGhost EXCEPT
                          !.afterInterrupt = (ghost.interruptedAt # "" /\ ~dry),
                          !.fresh = ghost.fresh,
                          !.latest = ghost.latest,
                          !.dry = IF ~dry /\ ghost.dry.at = "done"
                                  THEN [ghost.dry EXCEPT !.at = "paired"]
                                  ELSE NoDry,
                          !.walked = ghost.walked]
    /\ pc' = "main"
    /\ referenceSet' = selectReferenceBackupSet(sets)
    /\ stats' = ZeroStats
    /\ UNCHANGED <<tree, dirs, today, sets, inodes, exitStatus, destinationSet,
                   destinationDatabase, referenceDatabase, rootsLeft, ids, stack, cur>>

\* backup(), lines 356-402: the set directory, its catalog, the reference catalog
backup_open ==
    /\ pc = "main"
    /\ pc' = "dirs"
    /\ destinationSet' = INPROGRESS_DIRNAME
    /\ sets' = IF optDryRun \/ INPROGRESS_DIRNAME \in DOMAIN sets THEN sets
               ELSE (INPROGRESS_DIRNAME :> EmptySet) @@ sets
    /\ destinationDatabase' =
          [st |-> "open",
           cat |-> IF optDryRun THEN EmptyCatalog ELSE sets'[INPROGRESS_DIRNAME].catalog]
    /\ referenceDatabase' =
          IF referenceSet # NoSet
          THEN [st |-> "open", cat |-> sets[referenceSet].catalog]
          ELSE NoDb
    /\ rootsLeft' = dirs
    /\ UNCHANGED <<envVars, inodes, exitStatus, optDryRun, referenceSet, ids, stack,
                   cur, stats, ghost>>

\* backup(), lines 405-426: the next source root, and backupDirectory on it
backup_root ==
    /\ pc = "dirs"
    /\ rootsLeft # <<>>
    /\ LET path == Head(rootsLeft)
           cat == UpsertSource(destinationDatabase.cat, path)
           newIds == [sourceId |-> UpsertSourceId(destinationDatabase.cat, path),
                      refSourceId |-> IF referenceDatabase.st = "open"
                                      THEN FindSourceId(referenceDatabase.cat, path)
                                      ELSE 0]
       IN  /\ rootsLeft' = Tail(rootsLeft)
           /\ ids' = newIds
           /\ LET st == StatResult("ok", "D", 0, 0, RootOf(path))
                  o == IF IsDestination(st.node) THEN [Here EXCEPT !.cat = cat]
                       ELSE LET o1 == Tick([Here EXCEPT !.cat =
                                        insertFileEntry(cat, newIds.sourceId, <<>>,
                                                        "D", st, "")])
                            IN  [Bump(o1, "directoriesCounter") EXCEPT
                                   !.stack = <<[rel |-> <<>>, node |-> st.node,
                                                todo |-> iterdir(st.node), links |-> 0]>>]
                  r == Resume(o)
              IN  /\ pc' = r.pc
                  /\ stack' = r.stack
                  /\ destinationDatabase' = [destinationDatabase EXCEPT !.cat = r.cat]
                  /\ stats' = r.stats
                  /\ sets' = r.sets
    /\ UNCHANGED <<envVars, inodes, exitStatus, optDryRun, destinationSet, referenceSet,
                   referenceDatabase, cur, ghost>>

\* the loop body of backupDirectory, lines 321-345, for a child that stat()
\* does not show as a regular file
backupDirectory_child ==
    /\ pc = "walk"
    /\ ~(ChildStat.err = "ok" /\ ChildStat.mode = "F")
    /\ LET o == Dispatch(ChildTaken, ChildPath, ChildStat, Child.node, ChildLinks)
       IN  Apply(IF o.err = "" THEN Resume(o) ELSE o)

\* the loop body of backupDirectory for a regular file: backupFile up to the open
backupFile_open ==
    /\ pc = "walk"
    /\ ChildStat.err = "ok" /\ ChildStat.mode = "F"
    /\ Apply(backupFile(ChildTaken, ChildPath, ChildStat))

\* backupFile: one block read, hashed, linked or opened for writing
backupFile_read ==
    /\ pc = "read"
    /\ \E ref \in first(glob(sets, sha1(NextView))) : Apply(ReadBlock(ref))

\* linkOrCreateBlock: the bytes are written into the opened file
linkOrCreateBlock_write ==
    /\ pc = "write"
    /\ Apply(WriteBlock)

\* backup(), lines 428-432: the final commit, the catalogs are closed
backup_close ==
    /\ pc = "dirs"
    /\ rootsLeft = <<>>
    /\ pc' = "closed"
    /\ sets' = commit(sets, destinationSet, destinationDatabase.cat, optDryRun)
    /\ destinationDatabase' = [st |-> "closed", cat |-> EmptyCatalog]
    /\ referenceDatabase' = IF referenceDatabase.st = "open"
                            THEN [st |-> "closed", cat |-> EmptyCatalog]
                            ELSE referenceDatabase
    /\ UNCHANGED <<envVars, inodes, exitStatus, optDryRun, destinationSet, referenceSet,
                   rootsLeft, ids, stack, cur, stats, ghost>>

\* def renameToDateString
renameToDateString ==
    /\ pc = "closed"
    /\ pc' = "stats"
    /\ LET d == FreeName(sets, today, 0)
       IN  /\ destinationSet' = d
           /\ sets' = IF optDryRun THEN sets ELSE Rename(sets, destinationSet, d)
           /\ ghost' = [ghost EXCEPT !.fresh = IF optDryRun THEN @ ELSE d,
                                     !.latest = IF optDryRun THEN @ ELSE d]
    /\ UNCHANGED <<envVars, inodes, exitStatus, optDryRun, referenceSet,
                   destinationDatabase, referenceDatabase, rootsLeft, ids, stack, cur,
                   stats>>

\* def showStatistics, and main() returns
showStatistics ==
    /\ pc = "stats"
    /\ Exit(0)
    /\ ghost' = [ghost EXCEPT !.dry = IF optDryRun THEN [at |-> "done", stats |-> stats]
                                      ELSE NoDry,
                              !.walked = IF optDryRun THEN @ ELSE NoWalk]
    /\ UNCHANGED <<envVars, diskVars>>

\* what an interrupt leaves for the next run to walk over again: the catalog,
\* if the walk of a real run was over
WalkLeft(cat) ==
    IF optDryRun THEN ghost.walked
    ELSE IF pc = "closed" \/ (pc = "dirs" /\ rootsLeft = <<>>)
         THEN [on |-> TRUE, cat |-> cat]
         ELSE NoWalk

\* the handler of KeyboardInterrupt, lines 546-548: commit() on the global
\* handle, which is None before backup() and closed after it
KeyboardInterrupt ==
    /\ pc # "idle"
    /\ budget.interrupts > 0
    /\ budget' = [budget EXCEPT !.interrupts = @ - 1]
    /\ IF destinationDatabase.st = "open"
       THEN /\ sets' = commit(sets, destinationSet, destinationDatabase.cat, optDryRun)
            /\ Exit(130)
            /\ ghost' = [ghost EXCEPT !.interruptedAt = pc, !.peered = {},
                                      !.block = NoBlock,
                                      !.walked = WalkLeft(destinationDatabase.cat)]
       ELSE /\ sets' = sets
            /\ Exit(1)
            /\ ghost' = [ghost EXCEPT !.interruptedAt = pc, !.peered = {},
                                      !.block = NoBlock,
                                      !.walked = IF pc = "closed"
                                                 THEN WalkLeft(sets[destinationSet].catalog)
                                                 ELSE @,
                                      !.error = IF destinationDatabase.st = "none"
                                                THEN "AttributeError"
                                                ELSE "ProgrammingError"]
    /\ UNCHANGED <<tree, dirs, today, inodes>>

(***************************************************************************)
(* The outside world, between two runs.                                    *)
(***************************************************************************)
SourceChange ==
    /\ pc = "idle"
    /\ budget.changes > 0
    /\ \E n \in budget.names : \E e \in Alternatives(n) :
          /\ e # tree[n]
          /\ tree' = [tree EXCEPT ![n] = e]
    /\ budget' = [budget EXCEPT !.changes = @ - 1]
    /\ ghost' = [ghost EXCEPT !.fresh = NoSet, !.dry = NoDry, !.walked = NoWalk]
    /\ UNCHANGED <<dirs, today, diskVars, procVars>>

Midnight ==
    /\ pc = "idle"
    /\ budget.changes > 0
    /\ today < MaxDay
    /\ today' = today + 1
    /\ budget' = [budget EXCEPT !.changes = @ - 1]
    /\ ghost' = [ghost EXCEPT !.dry = NoDry]
    /\ UNCHANGED <<tree, dirs, diskVars, procVars>>

Next ==
    \/ main
    \/ backup_open
    \/ backup_root
    \/ backupDirectory_child
    \/ backupFile_open
    \/ backupFile_read
    \/ linkOrCreateBlock_write
    \/ backup_close
    \/ renameToDateString
    \/ showStatistics
    \/ KeyboardInterrupt
    \/ SourceChange
    \/ Midnight

Spec == Init /\ [][Next]_vars

\* One regular file of one block, the destination root beside it; the file's
\* bytes and mtime change between runs, runs are interrupted and resumed.
InitResume ==
    /\ InitCommon
    /\ tree = [n \in {"a", "b", "backup"} |->
                 IF n = "a" THEN RegularFile(<<1>>, 0, "ok")
                 ELSE IF n = "b" THEN Absent ELSE OtherEntry("dest")]
    /\ dirs = <<"src">>
    /\ budget = [runs |-> 5, dry |-> 0, interrupts |-> 2, changes |-> 4,
                 names |-> {"a"}, faults |-> 0, mtimes |-> 0..1]

SpecResume == InitResume /\ [][Next]_vars

\* The destination root after five runs of SpecResume (interrupted before a
\* block's bytes were written, completed, completed, interrupted again,
\* completed): set <<1, 0>> keeps the empty block file of the first run beside
\* a later block, set <<1, 1>> holds block 1 in full, and set <<1, 2>> has a
\* Block row for block 1 whose file is the empty one of the fourth run.
OneFileCatalog(lastmod, hash) ==
    [source |-> {[id |-> 1, path |-> "src"]},
     file |-> {[id |-> 1, source |-> 1, path |-> <<>>, type |-> "D", size |-> 0,
                lastmod |-> 0, link |-> ""],
               [id |-> 2, source |-> 1, path |-> <<"a">>, type |-> "F", size |-> 1,
                lastmod |-> lastmod, link |-> ""]},
     block |-> <<[file |-> 2, hash |-> hash, offset |-> 0, size |-> 1]>>]

LeftoverSets ==
    (<<1, 0>> :> [catalog |-> OneFileCatalog(0, 2), shards |-> {0, 1},
                  blocks |-> <<1, 2>>])
    @@ (<<1, 1>> :> [catalog |-> OneFileCatalog(1, 1), shards |-> {1},
                     blocks |-> <<3>>])
    @@ (<<1, 2>> :> [catalog |-> OneFileCatalog(1, 1), shards |-> {1},
                     blocks |-> <<4>>])

LeftoverInodes == <<<<>>, <<2>>, <<1>>, <<>>>>

LeftoverTree ==
    [n \in {"a", "b", "backup"} |->
       IF n = "a" THEN RegularFile(<<1>>, 1, "ok")
       ELSE IF n = "b" THEN Absent ELSE OtherEntry("dest")]

\* SpecResume reaches this disk, with the process at rest.
LeftoverReached ==
    /\ pc = "idle"
    /\ today = 1
    /\ dirs = <<"src">>
    /\ tree = LeftoverTree
    /\ sets = LeftoverSets
    /\ inodes = LeftoverInodes
    /\ ghost.latest = <<1, 2>>

\* Further runs over that destination root.
InitLeftover ==
    /\ today = 1
    /\ dirs = <<"src">>
    /\ tree = LeftoverTree
    /\ sets = LeftoverSets
    /\ inodes = LeftoverInodes
    /\ pc = "idle"
    /\ exitStatus = 0
    /\ optDryRun = FALSE
    /\ destinationSet = NoSet
    /\ referenceSet = NoSet
    /\ destinationDatabase = NoDb
    /\ referenceDatabase = NoDb
    /\ rootsLeft = <<>>
    /\ ids = NoIds
    /\ stack = <<>>
    /\ cur = NoCur
    /\ stats = ZeroStats
    /\ ghost = [NoGhost EXCEPT !.latest = <<1, 2>>]
    /\ budget = [runs |-> 3, dry |-> 1, interrupts |-> 1, changes |-> 2,
                 names |-> {"a"}, faults |-> 0, mtimes |-> 0..1]

SpecLeftover == InitLeftover /\ [][Next]_vars

\* One file of one block beside an empty directory; the file's st_mtime_ns is
\* any unsigned value of the word, and is changed to any other between two runs.
InitStamp ==
    /\ InitCommon
    /\ \E m \in Stamps :
          tree = [c \in {"a", "b", "backup"} |->
                    IF c = "a" THEN RegularFile(<<1>>, m, "ok")
                    ELSE IF c = "b" THEN OtherEntry("D") ELSE Absent]
    /\ dirs = <<"src">>
    /\ budget = [runs |-> 2, dry |-> 0, interrupts |-> 1, changes |-> 1,
                 names |-> {"a"}, faults |-> 0, mtimes |-> Stamps]

SpecStamp == InitStamp /\ [][Next]_vars

\* The source root named twice on the command line; two files that change
\* between runs, one run interrupted and resumed.
InitTwice ==
    /\ InitCommon
    /\ \E n \in 1..(BLOCK_SIZE + 1), b \in {OtherEntry("D"), RegularFile(<<1>>, 1, "ok")} :
          tree = [c \in {"a", "b", "backup"} |->
                    IF c = "a" THEN RegularFile(Bytes(n, 1), 0, "ok")
                    ELSE IF c = "b" THEN b ELSE Absent]
    /\ dirs = <<"src", "src">>
    /\ budget = [runs |-> 3, dry |-> 0, interrupts |-> 1, changes |-> 2,
                 names |-> {"a", "b"}, faults |-> 0, mtimes |-> 0..1]

SpecTwice == InitTwice /\ [][Next]_vars

(***************************************************************************)
(* Failures of the block store.                                            *)
(***************************************************************************)
\* linkOrCreateBlock raises, lines 155-181: blockFile.mkdir() or os.open() of
\* the block fails (at "read", before anything is on disk), or os.writev()
\* fails on the opened file (at "write").  A PermissionError is caught by
\* 'except PermissionError: continue' of the backupDirectory loop the file is
\* a child of, lines 343-345; any other OSError leaves main().
linkOrCreateBlock_fails ==
    /\ pc \in {"read", "write"}
    /\ ~optDryRun
    /\ budget.faults > 0
    /\ pc = "read" => (NextView # <<>> /\ ~ReadFails(cur.node, cur.reads))
    /\ budget' = [budget EXCEPT !.faults = @ - 1]
    /\ UNCHANGED <<tree, dirs, today, sets, inodes>>
    /\ \E err \in (IF pc = "read" THEN {"PermissionError", "OSError"} ELSE {"OSError"}) :
          IF err = "PermissionError"
          THEN LET o == Resume(Bump(Here, "processedBlocksCounter"))
               IN  /\ pc' = o.pc
                   /\ stack' = o.stack
                   /\ cur' = o.cur
                   /\ stats' = o.stats
                   /\ ghost' = [ghost EXCEPT !.fault = err]
                   /\ UNCHANGED <<exitStatus, optDryRun, destinationSet, referenceSet,
                                  destinationDatabase, referenceDatabase, rootsLeft, ids>>
          ELSE /\ Exit(1)
               /\ ghost' = [ghost EXCEPT !.error = err, !.fault = err,
                                         !.peered = {}, !.block = NoBlock]

NextFault ==
    \/ Next
    \/ linkOrCreateBlock_fails

\* A file of up to two blocks beside an empty directory or a second file of
\* one block; the block store fails once.
InitFault ==
    /\ InitCommon
    /\ \E n \in 1..(2 * BLOCK_SIZE), b \in {OtherEntry("D"), RegularFile(<<1>>, 1, "ok")} :
          tree = [c \in {"a", "b", "backup"} |->
                    IF c = "a" THEN RegularFile(Bytes(n, 1), 0, "ok")
                    ELSE IF c = "b" THEN b ELSE Absent]
    /\ dirs = <<"src">>
    /\ budget = [runs |-> 2, dry |-> 0, interrupts |-> 1, changes |-> 1,
                 names |-> {"a"}, faults |-> 1, mtimes |-> 0..1]

SpecFault == InitFault /\ [][NextFault]_vars

(***************************************************************************)
(* Properties.                                                             *)
(***************************************************************************)
\* the Block rows of a File row start at 0, are gap free, each at most
\* BLOCK_SIZE and all but the last exactly BLOCK_SIZE, and sum to the size
BlockRowsCover(cat, f) ==
    LET bs == BlocksOf(cat, f.id)
    IN  /\ \A i \in 1..Len(bs) :
              /\ bs[i].offset = (i - 1) * BLOCK_SIZE
              /\ bs[i].size <= BLOCK_SIZE
              /\ (i < Len(bs) => bs[i].size = BLOCK_SIZE)
        /\ f.size = IF bs = <<>> THEN 0
                    ELSE (Len(bs) - 1) * BLOCK_SIZE + bs[Len(bs)].size

\* C1: in every set a finished run of backup() leaves, the Block rows of every
\* File row of type 'F' cover the file: contiguous from 0 and summing to its
\* size, whichever path backupFile took (reuse, rehash, open or read failure).
C1_BlockRowsCoverFile ==
    (pc = "closed" /\ ~optDryRun) =>
        \A f \in sets[destinationSet].catalog.file :
            f.type = "F" => BlockRowsCover(sets[destinationSet].catalog, f)

\* C6: a user interrupt, wherever it arrives in main(), ends the process with
\* status 130.
C6_InterruptExits130 ==
    (pc = "idle" /\ ghost.interruptedAt # "") => exitStatus = 130

\* C8: every child that is a symbolic link gets one File row of type 'S' with
\* its readlink target, and is neither read as a file nor descended through.
C8_SymlinkRows ==
    (pc = "closed" /\ ~optDryRun) =>
        \A n \in DOMAIN tree :
            tree[n].kind = "L" =>
                \E f \in sets[destinationSet].catalog.file :
                    f.path = <<n>> /\ f.type = "S" /\ f.link = tree[n].target

\* a node at or below the destination root
InDestination(node) == node.t \in {"destroot", "set", "shard", "block"}

\* C9: with the destination root inside the source root, the walker never
\* descends into, and never reads as a source file, anything at or below the
\* destination root.
C9_NeverReadsOwnOutput ==
    tree["backup"].kind = "dest" =>
        /\ \A i \in 1..Len(stack) : ~InDestination(stack[i].node)
        /\ ~InDestination(cur.node)

\* the children of the source root that stat() shows as regular files
RegularChildren ==
    {n \in DOMAIN tree : LET st == stat(ChildNode(n), 0)
                         IN  st.err = "ok" /\ st.mode = "F"}

\* the run uses as reference the set the last finished run made, and no
\* source entry changed since
RerunOnUnchanged ==
    /\ pc \notin {"idle", "main"}
    /\ ghost.fresh # NoSet
    /\ referenceSet = ghost.fresh

\* C4: a run on unchanged sources whose reference is the set just made
\* classifies every regular file unchanged: no file is opened, no block is
\* hashed or passed to linkOrCreateBlock, and every block file of the new
\* set is a hard link to the same-named block file of the reference set.
C4_UnchangedRerun ==
    RerunOnUnchanged =>
        /\ stats.changedFilesCounter = 0
        /\ stats.processedBlocksCounter = 0
        /\ pc \notin {"read", "write"}
        /\ (pc = "closed" =>
               stats.unchangedFilesCounter >= Cardinality(RegularChildren))
        /\ (destinationSet \in DOMAIN sets =>
               \A h \in DOMAIN sets[destinationSet].blocks :
                   /\ HasBlock(sets, referenceSet, h)
                   /\ sets[destinationSet].blocks[h] = sets[referenceSet].blocks[h])

C4_Witness ==
    /\ RerunOnUnchanged
    /\ pc = "closed"
    /\ ~optDryRun
    /\ stats.unchangedFilesCounter > 0
    /\ DOMAIN sets[destinationSet].blocks # {}

\* C5: no step of a dry run creates, changes, links, renames or deletes
\* anything under the destination root.
C5_DryRunLeavesDisk == [][optDryRun => UNCHANGED <<sets, inodes>>]_vars

C5_Witness ==
    /\ optDryRun
    /\ pc = "stats"
    /\ INPROGRESS_DIRNAME \in DOMAIN sets
    /\ stats.createdBlocksCounter > 0
    /\ stats.catalogEntriesCounter >= COMMIT_INTERVAL_FILES

\* C2: every Block row of a set names a block file of that set whose length
\* is the row's size.
C2_BlockRowsHaveFiles ==
    \A s \in DOMAIN sets :
        \A i \in 1..Len(sets[s].catalog.block) :
            LET row == sets[s].catalog.block[i]
            IN  HasBlock(sets, s, row.hash) /\ SizeOf(sets, inodes, s, row.hash) = row.size

\* C3: a block that a sibling set holds at its full size is never written
\* afresh: linkOrCreateBlock returns Duplicate or LinkedFromPeer, and after the
\* walk the block file of the new set has link count 2 or more.
C3_PeerNeverRewritten ==
    /\ ghost.block.peer => ghost.block.result \in {"Duplicate", "LinkedFromPeer"}
    /\ (pc = "closed" /\ ~optDryRun) =>
           \A h \in ghost.peered :
               HasBlock(sets, destinationSet, h) /\ LinkCount(sets, destinationSet, h) >= 2

\* C7: the run after an interrupted run ends without a fatal error.
C7_ResumeCompletes ==
    (pc = "idle" /\ ghost.afterInterrupt /\ ghost.interruptedAt = "") => exitStatus = 0

\* C10: no step changes the bytes of, or removes, a block file or the catalog
\* of a historical set.
C10_HistoricalReadOnly ==
    [][\A s \in HistoricalSets(sets) :
          /\ s \in DOMAIN sets'
          /\ sets'[s].catalog = sets[s].catalog
          /\ \A h \in DOMAIN sets[s].blocks :
                /\ h \in DOMAIN sets'[s].blocks
                /\ inodes'[sets'[s].blocks[h]] = inodes[sets[s].blocks[h]]]_vars

\* C11: once the block store has failed to write a block, the run is over:
\* the walk does not go on to the next entry.
C11_BlockFailureIsFatal ==
    ghost.fault # "" => (pc = "idle" /\ exitStatus = 1)

\* C12: no failure on a single source entry (stat, open or read of a child
\* fails) ends the run: the walk skips the entry and goes on.
C12_EntryFailureIsSkipped ==
    ghost.fault = "" => ghost.error \notin {"FileNotFoundError", "OSError"}

\* C13: the reference set a run selects is the most recent historical set,
\* the one the latest finished non-dry run made by renaming 'inprogress'.
C13_ReferenceIsLatest ==
    pc \in {"main", "dirs", "walk", "read", "write", "closed"} =>
        referenceSet = ghost.latest

C13_Witness ==
    /\ pc = "main"
    /\ referenceSet = ghost.latest
    /\ referenceSet[1] = MaxDay
    /\ referenceSet[2] >= 1
    /\ Cardinality(HistoricalSets(sets)) >= 3

\* C14: a dry run and the real run that follows it on the same source tree
\* and the same destination root classify every file and every block alike:
\* all the counters agree at the end.
C14_DryRunDecidesAlike ==
    (pc = "stats" /\ ghost.dry.at = "paired") => stats = ghost.dry.stats

\* the rows of a sequence, and that none is there twice
RowSet(rows) == {rows[i] : i \in 1..Len(rows)}
NoRowTwice(rows) == \A i, j \in 1..Len(rows) : rows[i] = rows[j] => i = j

\* C15: a second walk of the unchanged tree into the same 'inprogress' set
\* leaves the catalog the first walk left: the same File rows with the same
\* ids, the same Block rows for every file, none twice and none left over.
C15_SecondWalkSameCatalog ==
    (pc = "closed" /\ ~optDryRun /\ ghost.walked.on) =>
        LET cat == sets[destinationSet].catalog
        IN  /\ cat.file = ghost.walked.cat.file
            /\ {r.path : r \in cat.source} = {r.path : r \in ghost.walked.cat.source}
            /\ RowSet(cat.block) = RowSet(ghost.walked.cat.block)
            /\ NoRowTwice(cat.block)

C15_Witness ==
    /\ pc = "closed"
    /\ ~optDryRun
    /\ ghost.walked.on
    /\ Len(sets[destinationSet].catalog.block) >= 2
    /\ stats.duplicateBlocksCounter >= 2

\* the Block rows a file of these bytes has when it is hashed block by block
ExpectedRows(fileId, data) ==
    [k \in 1..((Len(data) + BLOCK_SIZE - 1) \div BLOCK_SIZE) |->
        LET offset == (k - 1) * BLOCK_SIZE
            size == Min(BLOCK_SIZE, Len(data) - offset)
        IN  [file |-> fileId, offset |-> offset, size |-> size,
             hash |-> sha1(SubSeq(data, offset + 1, offset + size))]]

\* C16: when the rehash of a file of n bytes ends at end of file, with no
\* failed read, the file has ceil(n / BLOCK_SIZE) Block rows, row k at offset
\* k * BLOCK_SIZE with size min(BLOCK_SIZE, n - k * BLOCK_SIZE).
C16_RehashRows ==
    [][(/\ pc = "read"
        /\ pc' \in {"walk", "dirs"}
        /\ ghost'.fault = ""
        /\ ~ReadFails(cur.node, cur.reads))
       => BlocksOf(destinationDatabase'.cat, cur.fileId)
            = ExpectedRows(cur.fileId, DataOf(cur.node))]_vars

C16_Witness ==
    /\ pc \in {"walk", "dirs"}
    /\ stats.changedFilesCounter = 1
    /\ stats.processedBlocksCounter = 2
    /\ \E f \in destinationDatabase.cat.file :
          /\ f.type = "F"
          /\ f.size = BLOCK_SIZE + 1
          /\ LET bs == BlocksOf(destinationDatabase.cat, f.id)
             IN  Len(bs) = 2 /\ bs[1].size = BLOCK_SIZE /\ bs[2].size = 1

\* C17: decode64 undoes encode64 on every unsigned value of the word,
\* encode64 lands in the signed range, two values encode alike only if they
\* are equal; and the lastmod a finished walk stored decodes to the file's
\* st_mtime_ns.
C17_Encode64RoundTrip ==
    /\ \A x \in Stamps :
          /\ decode64(encode64(x)) = x
          /\ encode64(x) >= -Pow(2, WORD_BITS - 1)
          /\ encode64(x) <= Pow(2, WORD_BITS - 1) - 1
          /\ \A y \in Stamps : (encode64(x) = encode64(y)) <=> (x = y)
    /\ (pc = "closed" /\ ~optDryRun) =>
          \A f \in sets[destinationSet].catalog.file :
              f.type = "F" =>
                  /\ decode64(f.lastmod) = tree["a"].mtime
                  /\ f.lastmod >= -Pow(2, WORD_BITS - 1)
                  /\ f.lastmod <= Pow(2, WORD_BITS - 1) - 1

C17_Witness ==
    /\ pc = "closed"
    /\ ~optDryRun
    /\ referenceSet # NoSet
    /\ tree["a"].mtime >= Pow(2, WORD_BITS - 1)
    /\ \E f \in sets[destinationSet].catalog.file :
          f.type = "F" /\ f.lastmod < 0 /\ decode64(f.lastmod) = tree["a"].mtime
    /\ \E g \in sets[referenceSet].catalog.file : g.type = "F" /\ g.lastmod >= 0

\* a Block row without the file it belongs to
RowBody(b) == [offset |-> b.offset, size |-> b.size, hash |-> b.hash]
RowBodies(rows) == [i \in 1..Len(rows) |-> RowBody(rows[i])]

\* the reference catalog's rows of type 'F' for the child the walk is at, with
\* the stored mtime equal to the encoded stat mtime and the stat size
ReuseRows ==
    {r \in referenceDatabase.cat.file :
        /\ ids.refSourceId # 0
        /\ r.source = ids.refSourceId
        /\ r.path = ChildPath
        /\ r.type = "F"
        /\ r.lastmod = encode64(ChildStat.mtime)
        /\ r.size = ChildStat.size}

\* C18: backupFile reuses the whole file exactly when the reference catalog
\* has such a row; it then inserts the reference file's Block rows in order
\* under the new file id and counts the file unchanged; otherwise it counts
\* the file changed and goes on to hash it.  One counter moves, by one.
C18_ReuseIffUnchanged ==
    [][(/\ pc = "walk"
        /\ ChildStat.err = "ok"
        /\ ChildStat.mode = "F"
        /\ pc' # "idle")
       => LET fileId == FileRowId(destinationDatabase'.cat, ids.sourceId, ChildPath)
              mine == RowBodies(BlocksOf(destinationDatabase'.cat, fileId))
          IN  IF ReuseRows # {}
              THEN /\ stats'.unchangedFilesCounter = stats.unchangedFilesCounter + 1
                   /\ stats'.changedFilesCounter = stats.changedFilesCounter
                   /\ pc' # "read"
                   /\ \E r \in ReuseRows :
                         mine = RowBodies(BlocksOf(referenceDatabase.cat, r.id))
              ELSE /\ stats'.changedFilesCounter = stats.changedFilesCounter + 1
                   /\ stats'.unchangedFilesCounter = stats.unchangedFilesCounter
                   /\ mine = <<>>]_vars

C18_Witness ==
    /\ pc \in {"walk", "dirs"}
    /\ ~optDryRun
    /\ stats.unchangedFilesCounter = 1
    /\ stats.changedFilesCounter = 1
    /\ stats.processedBlocksCounter >= 1
    /\ Len(destinationDatabase.cat.block) >= 2

\* no two Block rows of a catalog have the same file and offset
OffsetsOnce(cat) ==
    \A i, j \in 1..Len(cat.block) :
        (cat.block[i].file = cat.block[j].file
         /\ cat.block[i].offset = cat.block[j].offset) => i = j

\* C19: in every catalog a (file, offset) pair has at most one Block row, and
\* no insertBlockEntry violates unique(file, offset, size).
C19_BlockOffsetsUnique ==
    /\ ghost.error # "IntegrityError"
    /\ OffsetsOnce(destinationDatabase.cat)
    /\ \A s \in DOMAIN sets : OffsetsOnce(sets[s].catalog)

C19_Witness ==
    /\ pc = "closed"
    /\ ghost.afterInterrupt
    /\ referenceSet # NoSet
    /\ stats.unchangedFilesCounter >= 2
    /\ stats.changedFilesCounter >= 2
    /\ stats.duplicateBlocksCounter >= 1
    /\ Len(sets[destinationSet].catalog.block) >= 2

\* only File rows of type 'F' own Block rows
BlocksOnlyOfFiles(cat) ==
    \A f \in cat.file : f.type # "F" => BlocksOf(cat, f.id) = <<>>

\* C20: in every set's catalog no File row of type 'D' or 'S' has a Block
\* row, also when the path was a regular file earlier in the same set.
C20_OnlyFilesOwnBlocks ==
    \A s \in DOMAIN sets : BlocksOnlyOfFiles(sets[s].catalog)

\* the File rows of a catalog whose path lies under a child of the source
\* root that does not exist
RowsOfAbsent(cat) ==
    {f \in cat.file : f.path # <<>> /\ tree[f.path[1]] = Absent}

\* C21: the catalog of the set a run has just completed and renamed holds no
\* File row, and no Block row, for a path that was absent from the source tree
\* during that run, also when the run reused an 'inprogress' directory an
\* earlier interrupted run left.  (The source tree does not change while a
\* run is under way, so at the rename it is the tree the run walked.)
C21_SnapshotOfRun ==
    (pc = "stats" /\ ~optDryRun) =>
        /\ RowsOfAbsent(sets[destinationSet].catalog) = {}
        /\ \A i \in 1..Len(sets[destinationSet].catalog.block) :
              \E f \in sets[destinationSet].catalog.file :
                 /\ f.id = sets[destinationSet].catalog.block[i].file
                 /\ f \notin RowsOfAbsent(sets[destinationSet].catalog)

====
